---- MODULE Spec2Model ----
(***************************************************************************)
(* State-machine model of backend/app/ai_model.py (FishActivityAnalyzer)   *)
(* and of the request handler of backend/app/main.py that drives it.       *)
(*                                                                         *)
(* Real-valued quantities (confidence, feed amount in kg) are fixed-point  *)
(* integers in thousandths; an arithmetic mean is kept exactly as the      *)
(* rational [num, den].  A frame is represented by the index it has in     *)
(* the source video together with its colour-channel order.                *)
(***************************************************************************)
EXTENDS Integers, Sequences, FiniteSets, TLC

VARIABLES
    model,         \* self.model: "None", "loaded" (a FishActivityModel) or "mock_model"
    pc,            \* position of the current call: "idle", "returned" or "raised"
    request,       \* arguments of the current call (file_path, farm_id, the file behind the path)
    cap,           \* the cv2.VideoCapture handle: "none", "open" or "released"
    frames,        \* frames handed to the analysis, in list order
    preds,         \* per-frame predictions (the list `results` of _analyze_frames)
    analysis,      \* analysis_results: the dict returned by the predictor
    result,        \* the dict returned by analyze_fish_activity
    error,         \* the exception that left the call, "none" when it returned
    predictor,     \* which predictor answered: "none", "model" or "fallback"
    forwardCalls,  \* number of times the call evaluated self.model(tensor_image)
    drawn,         \* the values uuid.uuid4() has given so far, in order (recorded by SpecIds)
    delivered      \* analysis_ids of the results callers already hold (recorded by SpecIds)

vars == <<model, pc, request, cap, frames, preds, analysis, result, error,
          predictor, forwardCalls, drawn, delivered>>

-----------------------------------------------------------------------------
(* Bounds of the model *)

\* largest frame count of a video handed to the sampler on its own
MaxTotal == 61
\* largest number of decodable frames of a video analysed end to end
MaxClip == 2
\* longest prediction sequence handed to the aggregator on its own
MaxPreds == 3
\* number of analyze calls followed when analysis ids are recorded
MaxCalls == 2

(* Program constants *)

\* default of the parameter max_frames of _extract_video_frames
max_frames == 30

Max(a, b) == IF a >= b THEN a ELSE b

-----------------------------------------------------------------------------
(* Rationals: [num |-> n, den |-> d] with d > 0 stands for n / (1000 * d). *)

Rat(n, d) == [num |-> n, den |-> d]
Milli(n) == Rat(n, 1)
RatLT(x, y) == x.num * y.den < y.num * x.den
RatEQ(x, y) == x.num * y.den = y.num * x.den
RatLE(x, y) == x.num * y.den <= y.num * x.den

-----------------------------------------------------------------------------
(* Media Sampler: _extract_video_frames and _load_image *)

\* frame delivered by cap.read(): OpenCV decodes to BGR
DecodedFrame(i) == [idx |-> i, channels |-> "BGR"]

\* cv2.cvtColor(frame, cv2.COLOR_BGR2RGB)
cvtColor(frame) == [frame EXCEPT !.channels = "RGB"]

\* int(cap.get(cv2.CAP_PROP_FRAME_COUNT)): 0 for a capture that did not open
total_frames(file) == IF file.opens THEN file.total ELSE 0

frame_interval_ceiling(file) ==
    Max(1, (total_frames(file) + max_frames - 1) \div max_frames)

frame_interval(file) == Max(1, total_frames(file) \div max_frames)

\* whether the given call (cap.read or cv2.cvtColor) raises on frame frame_idx
Raises(file, stage, frame_idx) ==
    file.fault.stage = stage /\ file.fault.at = frame_idx

\* the while loop of _extract_video_frames, from the state (acc, frame_idx)
RECURSIVE SampleLoop(_, _, _)
SampleLoop(file, acc, frame_idx) ==
    IF file.opens /\ Len(acc) < max_frames
    THEN IF Raises(file, "read", frame_idx)
         THEN [error |-> "cv2.error", frames |-> acc]
         ELSE IF frame_idx >= file.decodable     \* ret is False: break
         THEN [error |-> "none", frames |-> acc]
         ELSE IF frame_idx % frame_interval(file) = 0
         THEN IF Raises(file, "cvtColor", frame_idx)
              THEN [error |-> "cv2.error", frames |-> acc]
              ELSE SampleLoop(file, Append(acc, cvtColor(DecodedFrame(frame_idx))),
                              frame_idx + 1)
         ELSE SampleLoop(file, acc, frame_idx + 1)
    ELSE [error |-> "none", frames |-> acc]

\* _extract_video_frames: cap.release() is the statement after the loop, so an
\* exception raised inside the loop leaves the function without running it
extract_video_frames(file) ==
    LET loop == SampleLoop(file, <<>>, 0)
    IN  IF loop.error = "none"
        THEN [error |-> "none", frames |-> loop.frames, cap |-> "released"]
        ELSE [error |-> loop.error, frames |-> <<>>, cap |-> "open"]

\* cv2.imread gives None for a file it cannot decode; cv2.cvtColor(None, ...) raises
load_image(file) ==
    IF file.image
    THEN [error |-> "none", image |-> cvtColor(DecodedFrame(0))]
    ELSE [error |-> "cv2.error", image |-> <<>>]

-----------------------------------------------------------------------------
(* Random draws.  np.random.random() lies in [0, 1) and is sampled here in *)
(* thousandths; np.random.randint(lo, hi) is an integer n, lo <= n < hi.   *)

random_samples == {0, 500, 750, 950}
integer_samples == {15, 19, 20, 35, 36, 40, 44, 45}

randint(lo, hi) == {n \in integer_samples : lo <= n /\ n < hi}

-----------------------------------------------------------------------------
(* Activity Model and predictors *)

\* self.activity_levels
activity_levels ==
    [c \in 0..4 |-> CASE c = 0 -> "Low"
                      [] c = 1 -> "Moderate"
                      [] c = 2 -> "Active"
                      [] c = 3 -> "High"
                      [] c = 4 -> "Feeding"]

\* list(self.activity_levels.values())
activity_labels == {activity_levels[c] : c \in DOMAIN activity_levels}

\* self.feeding_behaviors
feeding_behaviors ==
    {"Surface feeding", "Bottom feeding", "Scattered feeding",
     "Aggressive feeding", "Calm feeding"}

\* variant: the guard without its `not self.model` test
model_unavailable_mock_only(m) == m = "mock_model"

\* variant: the guard without its "mock_model" test
model_unavailable_none_only(m) == m = "None"

\* the guard `not self.model or self.model == "mock_model"`
model_unavailable(m) == m = "None" \/ m = "mock_model"

\* variant: a feed amount drawn from a range 2.5 wide
mock_analysis_wide(label, r_conf, r_feed, fish) ==
    [activity_level |-> label,
     confidence     |-> Milli(850 + (r_conf * 140) \div 1000),
     feed_amount    |-> Milli(2000 + (r_feed * 2500) \div 1000),
     fish_count     |-> fish]

\* variant: an analysis that carries no fish_count
mock_analysis_no_count(label, r_conf, r_feed, fish) ==
    [activity_level |-> label,
     confidence     |-> Milli(850 + (r_conf * 140) \div 1000),
     feed_amount    |-> Milli(2000 + (r_feed * 2000) \div 1000)]

\* _mock_analysis, with its four random draws as parameters
mock_analysis(label, r_conf, r_feed, fish) ==
    [activity_level |-> label,
     confidence     |-> Milli(850 + (r_conf * 140) \div 1000),
     feed_amount    |-> Milli(2000 + (r_feed * 2000) \div 1000),
     fish_count     |-> fish]

RECURSIVE SumField(_, _)
SumField(results, f) ==
    IF results = <<>> THEN 0
    ELSE results[1][f] + SumField(Tail(results), f)

\* np.mean([r[f] for r in results]) of a non-empty list
mean(results, f) == Rat(SumField(results, f), Len(results))

\* variant: a new key is put in front of the older keys
count_one_front(counts, label) ==
    IF \E j \in 1..Len(counts) : counts[j].key = label
    THEN [j \in 1..Len(counts) |->
            IF counts[j].key = label
            THEN [counts[j] EXCEPT !.count = @ + 1]
            ELSE counts[j]]
    ELSE <<[key |-> label, count |-> 1]>> \o counts

\* activity_counts[activity] = activity_counts.get(activity, 0) + 1 on a dict
\* kept as the sequence of its (key, count) items in insertion order
count_one(counts, label) ==
    IF \E j \in 1..Len(counts) : counts[j].key = label
    THEN [j \in 1..Len(counts) |->
            IF counts[j].key = label
            THEN [counts[j] EXCEPT !.count = @ + 1]
            ELSE counts[j]]
    ELSE Append(counts, [key |-> label, count |-> 1])

\* the loop building activity_counts
RECURSIVE count_activities(_, _)
count_activities(results, counts) ==
    IF results = <<>> THEN counts
    ELSE count_activities(Tail(results),
                          count_one(counts, activity_levels[results[1].activity_class]))

\* variant: a later item with an equal count replaces the best one
max_step_last(best, item) == IF item.count >= best.count THEN item ELSE best

\* one step of max(...): a later item replaces the best one only when larger
max_step(best, item) == IF item.count > best.count THEN item ELSE best

RECURSIVE max_scan(_, _)
max_scan(best, rest) ==
    IF rest = <<>> THEN best
    ELSE max_scan(max_step(best, rest[1]), Tail(rest))

\* variant: the first key of the dict, whatever its count
dominant_activity_first(counts) == counts[1].key

\* max(activity_counts, key=activity_counts.get) of a non-empty dict
dominant_activity(counts) == max_scan(counts[1], Tail(counts)).key

\* variant: the feed amount without its floor
feed_floor_none(x) == x

\* max(0.5, x): the floor of the feed amount
feed_floor(x) == IF RatLT(Milli(500), x) THEN x ELSE Milli(500)

\* the aggregation of _analyze_frames over a non-empty list of results
aggregate(results, fish) ==
    [activity_level |-> dominant_activity(count_activities(results, <<>>)),
     confidence     |-> mean(results, "confidence"),
     feed_amount    |-> feed_floor(mean(results, "feed_amount")),
     fish_count     |-> fish]

\* self.model(tensor_image): calling anything but a loaded module raises
\* (the attempted call is counted in `forward`)
forward_error(m) == IF m = "loaded" THEN "none" ELSE "TypeError"

\* _analyze_frames.  frame_preds are the predictions the network gives for
\* the frames, mock the value _mock_analysis would return, fish the draw
\* of np.random.randint(15, 45).
analyze_frames(m, frs, frame_preds, mock, fish) ==
    IF model_unavailable(m)
    THEN [error |-> "none", value |-> mock, predictor |-> "fallback",
          forward |-> 0, results |-> <<>>]
    ELSE IF frs # <<>> /\ forward_error(m) # "none"
    THEN [error |-> forward_error(m), value |-> <<>>, predictor |-> "none",
          forward |-> 1, results |-> <<>>]
    ELSE IF frs = <<>>                          \* max() of an empty dict
    THEN [error |-> "ValueError", value |-> <<>>, predictor |-> "none",
          forward |-> 0, results |-> <<>>]
    ELSE [error |-> "none", value |-> aggregate(frame_preds, fish),
          predictor |-> "model", forward |-> Len(frame_preds),
          results |-> frame_preds]

\* variant: the single-image path without the floor of the feed amount
analyze_single_image_no_floor(m, frame_pred, mock, fish) ==
    IF model_unavailable(m)
    THEN [error |-> "none", value |-> mock, predictor |-> "fallback",
          forward |-> 0, results |-> <<>>]
    ELSE IF forward_error(m) # "none"
    THEN [error |-> forward_error(m), value |-> <<>>, predictor |-> "none",
          forward |-> 1, results |-> <<>>]
    ELSE [error |-> "none",
          value |-> [activity_level |-> activity_levels[frame_pred.activity_class],
                     confidence     |-> Milli(frame_pred.confidence),
                     feed_amount    |-> Milli(frame_pred.feed_amount),
                     fish_count     |-> fish],
          predictor |-> "model", forward |-> 1, results |-> <<frame_pred>>]

\* _analyze_single_image
analyze_single_image(m, frame_pred, mock, fish) ==
    IF model_unavailable(m)
    THEN [error |-> "none", value |-> mock, predictor |-> "fallback",
          forward |-> 0, results |-> <<>>]
    ELSE IF forward_error(m) # "none"
    THEN [error |-> forward_error(m), value |-> <<>>, predictor |-> "none",
          forward |-> 1, results |-> <<>>]
    ELSE [error |-> "none",
          value |-> [activity_level |-> activity_levels[frame_pred.activity_class],
                     confidence     |-> Milli(frame_pred.confidence),
                     feed_amount    |-> feed_floor(Milli(frame_pred.feed_amount)),
                     fish_count     |-> fish],
          predictor |-> "model", forward |-> 1, results |-> <<frame_pred>>]

-----------------------------------------------------------------------------
(* Insight/Recommendation Engine *)

FeedingOptimalMsg == "Fish are actively feeding - optimal time for feed distribution"
ReduceFeedMsg == "Low fish activity detected - consider reducing feed amount"
HighDensityMsg == "High fish density observed - monitor water quality closely"
TargetedMsg == "Lower fish density - feed distribution can be more targeted"
GrowthPhaseMsg == "Higher feed requirement detected - fish growth phase likely"

HighConfidenceMsg == "High confidence analysis - safe to apply recommendations"
LowConfidenceMsg == "Lower confidence - consider manual verification"
ContinueScheduleMsg == "Continue current feeding schedule - fish responding well"
ReduceFrequencyMsg == "Reduce feeding frequency or amount to prevent waste"
MonitorWaterMsg == "Monitor water temperature and quality parameters"
ScheduleNextMsg == "Schedule next analysis within 4-6 hours"

\* dict.get(key, default)
Get(d, key, default) == IF key \in DOMAIN d THEN d[key] ELSE default

\* the activity rule of _generate_insights
insight_activity(activity) ==
    IF activity \in {"High", "Feeding"} THEN <<FeedingOptimalMsg>>
    ELSE IF activity = "Low" THEN <<ReduceFeedMsg>>
    ELSE <<>>

\* variant: the density rule with inclusive thresholds
insight_density_inclusive(fish_count) ==
    IF fish_count >= 35 THEN <<HighDensityMsg>>
    ELSE IF fish_count <= 20 THEN <<TargetedMsg>>
    ELSE <<>>

\* the density rule of _generate_insights
insight_density(fish_count) ==
    IF fish_count > 35 THEN <<HighDensityMsg>>
    ELSE IF fish_count < 20 THEN <<TargetedMsg>>
    ELSE <<>>

\* the feed rule of _generate_insights
insight_feed(feed_amount) ==
    IF RatLT(Milli(3000), feed_amount) THEN <<GrowthPhaseMsg>> ELSE <<>>

\* _generate_insights
generate_insights(a) ==
    insight_activity(Get(a, "activity_level", "Moderate"))
    \o insight_density(Get(a, "fish_count", 25))
    \o insight_feed(Get(a, "feed_amount", Milli(2500)))

\* variant: the confidence rule with inclusive thresholds
recommend_confidence_inclusive(confidence) ==
    IF RatLE(Milli(900), confidence) THEN <<HighConfidenceMsg>>
    ELSE IF RatLE(confidence, Milli(700)) THEN <<LowConfidenceMsg>>
    ELSE <<>>

\* the confidence rule of _generate_recommendations
recommend_confidence(confidence) ==
    IF RatLT(Milli(900), confidence) THEN <<HighConfidenceMsg>>
    ELSE IF RatLT(confidence, Milli(700)) THEN <<LowConfidenceMsg>>
    ELSE <<>>

\* the activity rule of _generate_recommendations
recommend_activity(activity) ==
    IF activity = "Feeding" THEN <<ContinueScheduleMsg>>
    ELSE IF activity = "Low" THEN <<ReduceFrequencyMsg>>
    ELSE <<>>

\* _generate_recommendations
generate_recommendations(a) ==
    recommend_confidence(Get(a, "confidence", Milli(900)))
    \o recommend_activity(Get(a, "activity_level", "Moderate"))
    \o <<MonitorWaterMsg, ScheduleNextMsg>>

-----------------------------------------------------------------------------
(* Analysis Orchestrator: analyze_fish_activity *)

\* str.lower() on one character (the letters that occur in the paths used)
lower_char(ch) ==
    CASE ch = "M" -> "m"
      [] ch = "O" -> "o"
      [] ch = "V" -> "v"
      [] ch = "P" -> "p"
      [] ch = "A" -> "a"
      [] ch = "I" -> "i"
      [] OTHER -> ch

\* str.lower(): a path is the sequence of its characters
lower_case_sensitive(path) == path

lower(path) == [i \in 1..Len(path) |-> lower_char(path[i])]

\* str.endswith(suffix)
endswith(path, suffix) ==
    /\ Len(suffix) <= Len(path)
    /\ SubSeq(path, Len(path) - Len(suffix) + 1, Len(path)) = suffix

video_suffixes == {<<".", "m", "p", "4">>, <<".", "a", "v", "i">>, <<".", "m", "o", "v">>}

\* file_path.lower().endswith(('.mp4', '.avi', '.mov'))
is_video_path(path) == \E suffix \in video_suffixes : endswith(lower(path), suffix)

\* round(x, digits) on thousandths, unit = 10^(3 - digits): nearest, ties to even
round(x, unit) ==
    LET q == x \div unit
        r == x % unit
    IN  IF 2 * r > unit \/ (2 * r = unit /\ q % 2 = 1)
        THEN (q + 1) * unit
        ELSE q * unit

\* the frames the call obtains: lines 137-143
sample(path, file) ==
    IF is_video_path(path)
    THEN extract_video_frames(file)
    ELSE LET loaded == load_image(file)
         IN  [error  |-> loaded.error,
              frames |-> IF loaded.error = "none" THEN <<loaded.image>> ELSE <<>>,
              cap    |-> "none"]

\* variant: the id slot filled from the farm id
assemble_id_from_farm(farm_id, analysis_id, a, aux) ==
    [farm_id                 |-> farm_id,
     analysis_id             |-> farm_id,
     timestamp               |-> "utcnow",
     fish_count              |-> Get(a, "fish_count", aux.fish_default),
     activity_level          |-> Get(a, "activity_level", aux.label_default),
     feeding_behavior        |-> Get(a, "feeding_behavior", aux.behavior),
     recommended_feed_amount |-> Get(a, "feed_amount",
                                     Milli(round(2500 + (aux.r_feed * 1500) \div 1000, 10))),
     confidence_score        |-> Get(a, "confidence",
                                     Milli(850 + (aux.r_conf * 140) \div 1000)),
     estimated_cost_savings  |-> round(10000 + aux.r_cost * 20, 10),
     efficiency_score        |-> round(7000 + (aux.r_eff * 2500) \div 1000, 100),
     sustainability_score    |-> round(7500 + aux.r_sus * 2, 100),
     water_quality_impact    |-> aux.water,
     insights                |-> generate_insights(a),
     recommendations         |-> generate_recommendations(a)]

\* the dict `results`: lines 146-161.  aux holds the random draws made while
\* the dict is built, the defaults of the .get calls included.
assemble(farm_id, analysis_id, a, aux) ==
    [farm_id                 |-> farm_id,
     analysis_id             |-> analysis_id,
     timestamp               |-> "utcnow",
     fish_count              |-> Get(a, "fish_count", aux.fish_default),
     activity_level          |-> Get(a, "activity_level", aux.label_default),
     feeding_behavior        |-> Get(a, "feeding_behavior", aux.behavior),
     recommended_feed_amount |-> Get(a, "feed_amount",
                                     Milli(round(2500 + (aux.r_feed * 1500) \div 1000, 10))),
     confidence_score        |-> Get(a, "confidence",
                                     Milli(850 + (aux.r_conf * 140) \div 1000)),
     estimated_cost_savings  |-> round(10000 + aux.r_cost * 20, 10),
     efficiency_score        |-> round(7000 + (aux.r_eff * 2500) \div 1000, 100),
     sustainability_score    |-> round(7500 + aux.r_sus * 2, 100),
     water_quality_impact    |-> aux.water,
     insights                |-> generate_insights(a),
     recommendations         |-> generate_recommendations(a)]

\* analyze_fish_activity: the whole call, its random draws and the network's
\* predictions for the sampled frames given as parameters
analyze_fish_activity(m, path, file, farm_id, analysis_id, frame_preds, mock, fish, aux) ==
    LET s == sample(path, file)
        a == IF is_video_path(path)
             THEN analyze_frames(m, s.frames, frame_preds, mock, fish)
             ELSE analyze_single_image(m, frame_preds[1], mock, fish)
    IN  IF s.error # "none"
        THEN [error |-> s.error, frames |-> s.frames, cap |-> s.cap, results |-> <<>>,
              analysis |-> <<>>, value |-> <<>>, predictor |-> "none", forward |-> 0]
        ELSE IF a.error # "none"
        THEN [error |-> a.error, frames |-> s.frames, cap |-> s.cap, results |-> a.results,
              analysis |-> <<>>, value |-> <<>>, predictor |-> a.predictor,
              forward |-> a.forward]
        ELSE [error |-> "none", frames |-> s.frames, cap |-> s.cap, results |-> a.results,
              analysis |-> a.value,
              value |-> assemble(farm_id, analysis_id, a.value, aux),
              predictor |-> a.predictor, forward |-> a.forward]

-----------------------------------------------------------------------------
(* Inputs *)

Paths ==
    {<<"a", ".", "m", "p", "4">>, <<"A", ".", "M", "O", "V">>,
     <<"a", ".", "j", "p", "g">>, <<"m", "p", "4">>}

FarmIds == {"UAE_Farm_001", "farm_2"}

AnalysisIds == {"uuid_1"}

\* what lies behind a path: `image` says cv2.imread decodes it, `opens` that
\* cv2.VideoCapture opens it, `total` is the frame count the container reports
\* and `decodable` the number of frames cap.read() delivers
\* and `fault` names a frame on which cap.read() or cv2.cvtColor raises
NoFault == [stage |-> "none", at |-> 0]
ImageFile ==
    [image |-> TRUE, opens |-> FALSE, total |-> 0, decodable |-> 0, fault |-> NoFault]
UnreadableFile ==
    [image |-> FALSE, opens |-> FALSE, total |-> 0, decodable |-> 0, fault |-> NoFault]
VideoFile(t, n) ==
    [image |-> FALSE, opens |-> TRUE, total |-> t, decodable |-> n, fault |-> NoFault]
FaultyVideo(n, stage, at) ==
    [image |-> FALSE, opens |-> TRUE, total |-> n, decodable |-> n,
     fault |-> [stage |-> stage, at |-> at]]

ClipFiles == {ImageFile, UnreadableFile} \cup {VideoFile(n, n) : n \in 0..MaxClip}

SamplerFiles ==
    {UnreadableFile}
    \cup {VideoFile(t, n) : t \in 0..MaxTotal, n \in 0..MaxTotal}
    \cup UNION {{FaultyVideo(n, stage, at) : at \in {0, n \div 2, n - 1}} :
                   n \in 1..MaxTotal, stage \in {"read", "cvtColor"}}

FramePrediction(c, p, f) == [activity_class |-> c, confidence |-> p, feed_amount |-> f]

\* predictions the network may give for a frame of an analysed clip
ClipReadings == {<<650, -400>>, <<900, 3500>>, <<950, 3000>>}
ClipPredictions ==
    {FramePrediction(c, r[1], r[2]) : c \in DOMAIN activity_levels, r \in ClipReadings}

\* predictions handed to the aggregator on its own
AggReadings == {<<600, 100>>, <<950, 200>>, <<800, 300>>, <<950, 1500>>}
AggPredictions ==
    {FramePrediction(c, r[1], r[2]) : c \in DOMAIN activity_levels, r \in AggReadings}

SeqsOfLen(S, n) == [1..n -> S]
SeqsUpTo(S, n) == UNION {SeqsOfLen(S, k) : k \in 0..n}

\* the values _mock_analysis can return
MockValues ==
    {mock_analysis(l, rc, rf, fish) :
        l \in activity_labels, rc \in random_samples, rf \in random_samples,
        fish \in randint(15, 45)}

\* draws made while the result dict is built
AuxDraws ==
    {[behavior |-> "Surface feeding", water |-> "Minimal", r_cost |-> 0, r_eff |-> 0,
      r_sus |-> 0, fish_default |-> 44, label_default |-> "Low", r_feed |-> 0,
      r_conf |-> 0],
     [behavior |-> "Calm feeding", water |-> "Moderate", r_cost |-> 950, r_eff |-> 500,
      r_sus |-> 750, fish_default |-> 15, label_default |-> "Feeding", r_feed |-> 950,
      r_conf |-> 950]}

NoRequest == [path |-> <<>>, farm_id |-> "", file |-> UnreadableFile]

-----------------------------------------------------------------------------
(* Actions *)

Init ==
    /\ model = "None"
    /\ pc = "idle"
    /\ request = NoRequest
    /\ cap = "none"
    /\ frames = <<>>
    /\ preds = <<>>
    /\ analysis = <<>>
    /\ result = <<>>
    /\ error = "none"
    /\ predictor = "none"
    /\ forwardCalls = 0
    /\ drawn = <<>>
    /\ delivered = {}

\* is_loaded: self.model is not None
is_loaded(m) == m # "None"

\* GET /api/health: the flag of the HealthCheck record that depends on state
health_check(m) == [status |-> "healthy", ai_model_loaded |-> is_loaded(m)]

\* load_model: FishActivityModel() either builds or raises; on failure the
\* handler installs the string "mock_model"
LoadModel ==
    /\ pc = "idle"
    /\ \E ok \in BOOLEAN : model' = IF ok THEN "loaded" ELSE "mock_model"
    /\ UNCHANGED <<pc, request, cap, frames, preds, analysis, result, error,
                   predictor, forwardCalls, drawn, delivered>>

Finish(req, out) ==
    /\ pc' = IF out.error = "none" THEN "returned" ELSE "raised"
    /\ request' = req
    /\ cap' = out.cap
    /\ frames' = out.frames
    /\ preds' = out.results
    /\ analysis' = out.analysis
    /\ result' = out.value
    /\ error' = out.error
    /\ predictor' = out.predictor
    /\ forwardCalls' = out.forward
    /\ UNCHANGED model

\* POST /api/analyze calling analyze_fish_activity
Analyze ==
    /\ pc = "idle"
    /\ \E path \in Paths, file \in ClipFiles, farm_id \in FarmIds,
          analysis_id \in AnalysisIds, aux \in AuxDraws :
        \E frame_preds \in (IF model = "loaded"
                            THEN SeqsOfLen(ClipPredictions, Len(sample(path, file).frames))
                            ELSE {<<>>}),
           mock \in (IF model = "loaded"
                     THEN {mock_analysis("Moderate", 0, 0, 25)}
                     ELSE MockValues),
           fish \in (IF model = "loaded" THEN randint(15, 45) ELSE {25}) :
            Finish([path |-> path, farm_id |-> farm_id, file |-> file],
                   analyze_fish_activity(model, path, file, farm_id, analysis_id,
                                         frame_preds, mock, fish, aux))
    /\ UNCHANGED <<drawn, delivered>>

\* the caller takes the result or the exception; the analyzer is idle again
Respond ==
    /\ pc \in {"returned", "raised"}
    /\ pc' = "idle"
    /\ request' = NoRequest
    /\ cap' = "none"
    /\ frames' = <<>>
    /\ preds' = <<>>
    /\ analysis' = <<>>
    /\ result' = <<>>
    /\ error' = "none"
    /\ predictor' = "none"
    /\ forwardCalls' = 0
    /\ UNCHANGED <<model, drawn, delivered>>

Next == LoadModel \/ Analyze \/ Respond

Spec == Init /\ [][Next]_vars

-----------------------------------------------------------------------------
(* The sampler on its own: _extract_video_frames on videos of any length *)

VideoPath == <<"a", ".", "m", "p", "4">>

ExtractFrames ==
    /\ pc = "idle"
    /\ \E file \in SamplerFiles :
        LET out == extract_video_frames(file)
        IN  /\ request' = [path |-> VideoPath, farm_id |-> "", file |-> file]
            /\ frames' = out.frames
            /\ cap' = out.cap
            /\ error' = out.error
            /\ pc' = IF out.error = "none" THEN "returned" ELSE "raised"
    /\ UNCHANGED <<model, preds, analysis, result, predictor, forwardCalls,
                   drawn, delivered>>

NextSampler == ExtractFrames \/ Respond

SpecSampler == Init /\ [][NextSampler]_vars

-----------------------------------------------------------------------------
(* The aggregator on its own: _analyze_frames with a loaded model, on every *)
(* sequence of frame predictions up to MaxPreds                            *)

InitAgg ==
    /\ model = "loaded"
    /\ pc = "idle"
    /\ request = NoRequest
    /\ cap = "none"
    /\ preds \in SeqsUpTo(AggPredictions, MaxPreds)
    /\ frames = [i \in 1..Len(preds) |-> cvtColor(DecodedFrame(i - 1))]
    /\ analysis = <<>>
    /\ result = <<>>
    /\ error = "none"
    /\ predictor = "none"
    /\ forwardCalls = 0
    /\ drawn = <<>>
    /\ delivered = {}

AnalyzeFrames ==
    /\ pc = "idle"
    /\ \E fish \in randint(15, 45) \cap {15, 44} :
        LET out == analyze_frames(model, frames, preds,
                                  mock_analysis("Moderate", 0, 0, 25), fish)
        IN  /\ pc' = IF out.error = "none" THEN "returned" ELSE "raised"
            /\ analysis' = out.value
            /\ error' = out.error
            /\ predictor' = out.predictor
            /\ forwardCalls' = out.forward
    /\ UNCHANGED <<model, request, cap, frames, preds, result, drawn, delivered>>

NextAgg == AnalyzeFrames

SpecAgg == InitAgg /\ [][NextAgg]_vars

-----------------------------------------------------------------------------
(* The dispatch on the file name: analyze calls over paths of every shape,   *)
(* with files whose content agrees or disagrees with the name.              *)

KindPaths ==
    {<<"a", ".", "m", "p", "4">>, <<"a", ".", "M", "p", "4">>,
     <<"A", ".", "M", "P", "4">>, <<"a", ".", "a", "v", "i">>,
     <<"a", ".", "A", "V", "I">>, <<"a", ".", "m", "o", "v">>,
     <<"a", ".", "m", "O", "v">>, <<".", "m", "p", "4">>,
     <<"a", ".", "j", "p", "g">>, <<"a", ".", "p", "n", "g">>,
     <<"a", ".", "m", "p", "4", ".", "j", "p", "g">>,
     <<"a", ".", "m", "p">>, <<"a", "m", "p", "4">>, <<"m", "o", "v">>,
     <<"a">>, <<>>}

KindFiles == {ImageFile, UnreadableFile, VideoFile(2, 2)}

AnalyzeKind ==
    /\ pc = "idle"
    /\ \E path \in KindPaths, file \in KindFiles, farm_id \in FarmIds,
          analysis_id \in AnalysisIds, aux \in AuxDraws :
        LET frame_preds == IF model = "loaded"
                           THEN [i \in 1..Len(sample(path, file).frames) |->
                                    FramePrediction(2, 900, 3500)]
                           ELSE <<>>
        IN  Finish([path |-> path, farm_id |-> farm_id, file |-> file],
                   analyze_fish_activity(model, path, file, farm_id, analysis_id,
                                         frame_preds,
                                         mock_analysis("Low", 500, 500, 20), 36, aux))
    /\ UNCHANGED <<drawn, delivered>>

NextKinds == LoadModel \/ AnalyzeKind \/ Respond

SpecKinds == Init /\ [][NextKinds]_vars

-----------------------------------------------------------------------------
(* Historical analytics: get_historical_analytics on the dates of the first  *)
(* months of a common year. A date is [month, day]; the time of day and the  *)
(* random-valued metrics of the record take no part in its control flow or   *)
(* its dates and are left out.                                               *)

MaxDays == 8

Months == 1..3

MonthLen(month) == IF month = 2 THEN 28 ELSE IF month = 4 THEN 30 ELSE 31

Dates == UNION {{[month |-> m, day |-> d] : d \in 1..MonthLen(m)} : m \in Months}

NextDay(date) ==
    IF date.day < MonthLen(date.month)
    THEN [month |-> date.month, day |-> date.day + 1]
    ELSE [month |-> date.month + 1, day |-> 1]

\* datetime.replace(day=d): ValueError when d is not a day of the month
replace_day(date, d) ==
    IF d \in 1..MonthLen(date.month)
    THEN [error |-> "none", value |-> [month |-> date.month, day |-> d]]
    ELSE [error |-> "ValueError", value |-> date]

\* get_historical_analytics; now1 and now2 are its two readings of the clock
get_historical_analytics(farm_id, days, now1, now2) ==
    LET end_date == now1
        start_date == replace_day(now2, end_date.day - days)
        day_date(i) == replace_day(start_date.value, start_date.value.day + i)
    IN  IF start_date.error # "none"
        THEN [error |-> start_date.error, value |-> <<>>]
        ELSE IF \E i \in 0..(days - 1) : day_date(i).error # "none"
        THEN [error |-> "ValueError", value |-> <<>>]
        ELSE [error |-> "none",
              value |-> [farm_id      |-> farm_id,
                         period_start |-> start_date.value,
                         period_end   |-> end_date,
                         daily_data   |-> [i \in 1..days |->
                                              [date |-> day_date(i - 1).value]]]]

\* GET /api/analytics/{farm_id}
GetAnalytics ==
    /\ pc = "idle"
    /\ \E farm_id \in FarmIds, days \in 1..MaxDays, now1 \in Dates :
        \E now2 \in {now1, NextDay(now1)} :
            LET out == get_historical_analytics(farm_id, days, now1, now2)
            IN  /\ request' = [path |-> <<>>, farm_id |-> farm_id,
                               file |-> UnreadableFile, days |-> days, now |-> now1]
                /\ result' = out.value
                /\ error' = out.error
                /\ pc' = IF out.error = "none" THEN "returned" ELSE "raised"
    /\ UNCHANGED <<model, cap, frames, preds, analysis, predictor, forwardCalls,
                   drawn, delivered>>

NextAnalytics == GetAnalytics \/ Respond

SpecAnalytics == Init /\ [][NextAnalytics]_vars

-----------------------------------------------------------------------------
(* The two analysis paths side by side: _analyze_frames on a one-frame list  *)
(* and _analyze_single_image on the same frame, the network giving the same  *)
(* prediction for it.  Here `analysis` holds what _analyze_frames returned   *)
(* and `result` what _analyze_single_image returned.                         *)

BothPredictions == ClipPredictions \cup AggPredictions

BothMocks == {mock_analysis("Low", 0, 0, 15), mock_analysis("High", 950, 950, 44)}

AnalyzeBoth ==
    /\ pc = "idle"
    /\ \E frame_pred \in BothPredictions, mock1 \in BothMocks, mock2 \in BothMocks,
          fish1 \in randint(15, 45) \cap {15, 44},
          fish2 \in randint(15, 45) \cap {15, 44} :
        LET frame == cvtColor(DecodedFrame(0))
            multi == analyze_frames(model, <<frame>>, <<frame_pred>>, mock1, fish1)
            single == analyze_single_image(model, frame_pred, mock2, fish2)
        IN  /\ frames' = <<frame>>
            /\ preds' = <<frame_pred>>
            /\ analysis' = multi.value
            /\ result' = single.value
            /\ predictor' = multi.predictor
            /\ forwardCalls' = multi.forward + single.forward
            /\ error' = IF multi.error # "none" THEN multi.error ELSE single.error
            /\ pc' = IF multi.error = "none" /\ single.error = "none"
                     THEN "returned" ELSE "raised"
    /\ UNCHANGED <<model, request, cap, drawn, delivered>>

NextBoth == LoadModel \/ AnalyzeBoth \/ Respond

SpecBoth == Init /\ [][NextBoth]_vars

-----------------------------------------------------------------------------
(* Analysis ids across calls: the uuids drawn and the ids already handed to *)
(* callers are recorded over MaxCalls consecutive analyze calls.            *)

\* the values uuid.uuid4() can give; a uuid4 value does not repeat
UuidSpace == {"uuid_1", "uuid_2", "uuid_3", "uuid_4", "uuid_5"}
uuid4 == {u \in UuidSpace : \A i \in 1..Len(drawn) : drawn[i] # u}

IdPaths == {<<"a", ".", "m", "p", "4">>, <<"a", ".", "j", "p", "g">>}
IdFiles == {ImageFile, UnreadableFile, VideoFile(1, 1)}
IdPrediction == FramePrediction(2, 900, 3500)

\* POST /api/analyze calling analyze_fish_activity, ids recorded
AnalyzeRecorded ==
    /\ pc = "idle"
    /\ Len(drawn) < MaxCalls
    /\ \E path \in IdPaths, file \in IdFiles, farm_id \in FarmIds,
          analysis_id \in uuid4, aux \in AuxDraws :
        /\ Finish([path |-> path, farm_id |-> farm_id, file |-> file],
                  analyze_fish_activity(model, path, file, farm_id, analysis_id,
                      [i \in 1..Len(sample(path, file).frames) |-> IdPrediction],
                      mock_analysis("Low", 500, 500, 20), 36, aux))
        /\ drawn' = Append(drawn, analysis_id)
    /\ UNCHANGED delivered

\* the caller takes the result or the exception and keeps the result's id
Deliver ==
    /\ pc \in {"returned", "raised"}
    /\ delivered' = IF pc = "returned" THEN delivered \cup {result.analysis_id}
                    ELSE delivered
    /\ pc' = "idle"
    /\ request' = NoRequest
    /\ cap' = "none"
    /\ frames' = <<>>
    /\ preds' = <<>>
    /\ analysis' = <<>>
    /\ result' = <<>>
    /\ error' = "none"
    /\ predictor' = "none"
    /\ forwardCalls' = 0
    /\ UNCHANGED <<model, drawn>>

NextIds == LoadModel \/ AnalyzeRecorded \/ Deliver

SpecIds == Init /\ [][NextIds]_vars


-----------------------------------------------------------------------------
(* Properties *)

IsVideoRequest == is_video_path(request.path)
Returned == pc = "returned"

StrictlyIncreasingIdx(frs) ==
    \A i, j \in 1..Len(frs) : i < j => frs[i].idx < frs[j].idx

\* C1: for any video input (any total frame count, T = 0 and a container that
\* fails to open included) _extract_video_frames returns between 1 and 30
\* frames, in strictly increasing source-frame-index order.
C1_OneToThirtyFramesInOrder ==
    (Returned /\ cap = "released")
        => /\ 1 <= Len(frames)
           /\ Len(frames) <= 30
           /\ StrictlyIncreasingIdx(frames)

\* number of frame predictions whose activity class is c
Occurrences(c) == Cardinality({i \in 1..Len(preds) : preds[i].activity_class = c})

\* index of the first frame prediction whose activity class is c
FirstSeen(c) ==
    CHOOSE i \in 1..Len(preds) :
        /\ preds[i].activity_class = c
        /\ \A k \in 1..(i - 1) : preds[k].activity_class # c

\* the classes whose label is the aggregated activity_level
WinningClasses == {c \in DOMAIN activity_levels : activity_levels[c] = analysis.activity_level}

HasHighestCount(c) ==
    /\ Occurrences(c) >= 1
    /\ \A d \in DOMAIN activity_levels : Occurrences(d) <= Occurrences(c)

\* C2 as stated: for every non-empty sequence of per-frame predictions the
\* aggregated activity_level is a label with the highest occurrence count, and
\* among labels sharing the highest count it is the one with the lowest
\* activity-class ordinal.
C2_LowestOrdinalTieBreak ==
    (Returned /\ predictor = "model" /\ preds # <<>>)
        => \E c \in WinningClasses :
              /\ HasHighestCount(c)
              /\ \A d \in DOMAIN activity_levels : HasHighestCount(d) => c <= d

\* C2 amended: the aggregated activity_level is a label with the highest
\* occurrence count, and among labels sharing the highest count it is the one
\* that appears first in the sequence of frame predictions.
C2_FirstSeenTieBreak ==
    (Returned /\ predictor = "model" /\ preds # <<>>)
        => \E c \in WinningClasses :
              /\ HasHighestCount(c)
              /\ \A d \in DOMAIN activity_levels :
                    HasHighestCount(d) => FirstSeen(c) <= FirstSeen(d)

\* a tie that the later-seen lower ordinal loses: classes [1, 0]
C2_Witness ==
    /\ Returned
    /\ Len(preds) = 2
    /\ preds[1].activity_class = 1
    /\ preds[2].activity_class = 0
    /\ analysis.activity_level = "Moderate"

\* sum of the per-frame feed amounts of the first n frame predictions
RECURSIVE FeedTotal(_)
FeedTotal(n) == IF n = 0 THEN 0 ELSE preds[n].feed_amount + FeedTotal(n - 1)

\* C3: for every non-empty sequence of per-frame predictions the aggregated
\* feed_amount equals max(0.5, arithmetic mean of the per-frame feed amounts),
\* so it is never below 0.5.
C3_FeedIsFlooredMean ==
    (Returned /\ predictor = "model" /\ preds # <<>>)
        => LET avg == Rat(FeedTotal(Len(preds)), Len(preds))
               half == Milli(500)
               feed == analysis.feed_amount
           IN  /\ RatLE(half, feed)
               /\ RatLE(avg, feed)
               /\ RatEQ(feed, half) \/ RatEQ(feed, avg)

\* the inputs [0.1, 0.2, 0.3], whose mean 0.2 is raised to 0.5
C3_Witness ==
    /\ Returned
    /\ Len(preds) = 3
    /\ preds[1].feed_amount = 100
    /\ preds[2].feed_amount = 200
    /\ preds[3].feed_amount = 300
    /\ RatEQ(analysis.feed_amount, Milli(500))

ModelDown == model \in {"None", "mock_model"}
Answered == pc # "idle"

\* C4: every result of the fallback predictor has feed_amount in [2.0, 4.0],
\* confidence in [0.85, 0.99], fish_count an integer in [15, 45] and
\* activity_level one of Low, Moderate, Active, High, Feeding.
C4_FallbackWithinBounds ==
    (Returned /\ predictor = "fallback")
        => /\ RatLE(Milli(2000), analysis.feed_amount)
           /\ RatLE(analysis.feed_amount, Milli(4000))
           /\ RatLE(Milli(850), analysis.confidence)
           /\ RatLE(analysis.confidence, Milli(990))
           /\ analysis.fish_count \in 15..45
           /\ analysis.activity_level \in {"Low", "Moderate", "Active", "High", "Feeding"}

\* a fallback result drawn near the top of every range
C4_Witness ==
    /\ Returned
    /\ predictor = "fallback"
    /\ RatLT(Milli(3800), analysis.feed_amount)
    /\ RatLT(Milli(980), analysis.confidence)
    /\ analysis.fish_count = 44

\* the path is one the sampler can read: an image cv2.imread decodes, or a
\* video that opens and delivers at least one frame
ReadableMedia ==
    IF IsVideoRequest
    THEN request.file.opens /\ request.file.decodable >= 1
    ELSE request.file.image

ResultFields ==
    {"farm_id", "analysis_id", "timestamp", "fish_count", "activity_level",
     "feeding_behavior", "recommended_feed_amount", "confidence_score",
     "estimated_cost_savings", "efficiency_score", "sustainability_score",
     "water_quality_impact", "insights", "recommendations"}

\* C5: with the model unavailable, analyze_fish_activity on readable media
\* returns a complete result with the same set of fields as on the
\* model-backed path, its activity_level, confidence, feed amount and
\* fish_count being those of the fallback predictor.
C5_FallbackResultComplete ==
    /\ (Returned /\ predictor = "model") => DOMAIN result = ResultFields
    /\ (Answered /\ ModelDown /\ ReadableMedia)
          => /\ Returned
             /\ predictor = "fallback"
             /\ DOMAIN result = ResultFields
             /\ DOMAIN analysis = {"activity_level", "confidence", "feed_amount", "fish_count"}
             /\ result.activity_level = analysis.activity_level
             /\ result.confidence_score = analysis.confidence
             /\ result.recommended_feed_amount = analysis.feed_amount
             /\ result.fish_count = analysis.fish_count

\* a readable video answered while load_model has never run
C5_Witness ==
    /\ Returned
    /\ model = "None"
    /\ IsVideoRequest
    /\ ReadableMedia
    /\ predictor = "fallback"

\* C6: analyzing an unreadable or corrupt media path (image or video
\* extension, model loaded or unavailable) always ends in a failure raised to
\* the caller, never in a result record.
C6_UnreadableAlwaysRaises ==
    (Answered /\ ~request.file.image /\ ~request.file.opens) => pc = "raised"

\* C7: when the sampler produces zero frames for a video the analysis fails
\* with a fatal error of its own kind, in both model states; no result is
\* returned and the aggregator is never run on an empty sequence.
C7_EmptySequenceIsDistinctFailure ==
    (Answered /\ IsVideoRequest /\ frames = <<>>)
        => /\ pc = "raised"
           /\ error = "EmptyFrameSequence"

Pick(cond, msg) == IF cond THEN <<msg>> ELSE <<>>

\* C8: _generate_insights returns an order-preserving selection from
\* [activity message, density message, growth-phase message]: feeding-optimal
\* iff the level is High or Feeding, reduce-feed iff it is Low, high-density
\* iff fish_count > 35, targeted iff fish_count < 20, growth-phase iff
\* feed_amount > 3.0.
C8_InsightsSelection ==
    Returned
        => result.insights =
              Pick(analysis.activity_level \in {"High", "Feeding"}, FeedingOptimalMsg)
              \o Pick(analysis.activity_level = "Low", ReduceFeedMsg)
              \o Pick(analysis.fish_count > 35, HighDensityMsg)
              \o Pick(analysis.fish_count < 20, TargetedMsg)
              \o Pick(RatLT(Milli(3000), analysis.feed_amount), GrowthPhaseMsg)

\* the case (Low, 40, 3.5): reduce-feed, high-density, growth-phase
C8_Witness ==
    /\ Returned
    /\ analysis.activity_level = "Low"
    /\ analysis.fish_count = 40
    /\ RatEQ(analysis.feed_amount, Milli(3500))
    /\ result.insights = <<ReduceFeedMsg, HighDensityMsg, GrowthPhaseMsg>>

\* C9: _generate_recommendations returns 2 to 4 entries, the last two being
\* monitor-water-quality then schedule-next-analysis; before them at most one
\* confidence message (high-confidence iff confidence > 0.9, low-confidence
\* iff confidence < 0.7) followed by at most one activity message
\* (continue-schedule iff Feeding, reduce-frequency iff Low).
C9_RecommendationsSelection ==
    Returned
        => /\ Len(result.recommendations) \in 2..4
           /\ result.recommendations =
                 Pick(RatLT(Milli(900), analysis.confidence), HighConfidenceMsg)
                 \o Pick(RatLT(analysis.confidence, Milli(700)), LowConfidenceMsg)
                 \o Pick(analysis.activity_level = "Feeding", ContinueScheduleMsg)
                 \o Pick(analysis.activity_level = "Low", ReduceFrequencyMsg)
                 \o <<MonitorWaterMsg, ScheduleNextMsg>>

\* a low-confidence result of a Low activity: four entries
C9_Witness ==
    /\ Returned
    /\ result.recommendations =
          <<LowConfidenceMsg, ReduceFrequencyMsg, MonitorWaterMsg, ScheduleNextMsg>>

\* C10: while the model is unavailable (never loaded, or the mock sentinel
\* installed by a failed load_model) no analysis invokes the forward pass of
\* the network, and every analysis that is answered is answered by the
\* fallback predictor, whatever load_model and analyze calls came before.
C10_NoForwardWhileUnavailable ==
    (Answered /\ ModelDown)
        => /\ forwardCalls = 0
           /\ Returned => predictor = "fallback"
           /\ pc = "raised" => error = "cv2.error"

\* an image answered by the fallback after load_model failed
C10_Witness ==
    /\ Returned
    /\ model = "mock_model"
    /\ ~IsVideoRequest
    /\ predictor = "fallback"
    /\ forwardCalls = 0

\* C11: across any sequence of analyze_fish_activity calls, every returned
\* result carries the analysis_id generated for that call, which no result
\* handed out before carries, and its farm_id is the farm_id passed to the call.
C11_FreshIdAndFarmPassThrough ==
    (Returned /\ drawn # <<>>)
        => /\ result.analysis_id = drawn[Len(drawn)]
           /\ result.analysis_id \notin delivered
           /\ result.farm_id = request.farm_id

\* a second result, for another farm, while the first one's id is held
C11_Witness ==
    /\ Returned
    /\ Len(drawn) = 2
    /\ delivered # {}
    /\ result.farm_id = "farm_2"

\* the sequence s with its entries at i and j exchanged
Swap(s, i, j) ==
    [k \in 1..Len(s) |-> IF k = i THEN s[j] ELSE IF k = j THEN s[i] ELSE s[k]]

\* the aggregate of the frame predictions taken in the order with i and j exchanged
Reordered(i, j) == aggregate(Swap(preds, i, j), analysis.fish_count)

\* some class occurs more often than every other class
UniqueHighestCount ==
    \E c \in DOMAIN activity_levels :
        \A d \in DOMAIN activity_levels : d # c => Occurrences(d) < Occurrences(c)

\* C12 as stated: the aggregated result does not depend on the order of the
\* per-frame predictions: every permutation of them yields the same
\* activity_level, confidence and feed_amount.  (Every permutation is a
\* product of exchanges of two entries, and every sequence is checked.)
C12_OrderIndependent ==
    (Returned /\ predictor = "model")
        => \A i, j \in 1..Len(preds) :
              /\ Reordered(i, j).activity_level = analysis.activity_level
              /\ RatEQ(Reordered(i, j).confidence, analysis.confidence)
              /\ RatEQ(Reordered(i, j).feed_amount, analysis.feed_amount)

\* C12 amended: every permutation of the per-frame predictions yields the
\* same confidence and feed_amount, and the same activity_level whenever one
\* label occurs more often than every other.
C12_OrderIndependentUnlessTied ==
    (Returned /\ predictor = "model")
        => \A i, j \in 1..Len(preds) :
              /\ UniqueHighestCount
                    => Reordered(i, j).activity_level = analysis.activity_level
              /\ RatEQ(Reordered(i, j).confidence, analysis.confidence)
              /\ RatEQ(Reordered(i, j).feed_amount, analysis.feed_amount)

\* three frames with different readings, the minority class seen first
C12_Witness ==
    /\ Returned
    /\ Len(preds) = 3
    /\ preds[1] = FramePrediction(0, 600, 100)
    /\ preds[2] = FramePrediction(1, 950, 1500)
    /\ preds[3] = FramePrediction(1, 800, 300)
    /\ analysis.activity_level = "Moderate"

\* C13: the capture handle opened by _extract_video_frames is released on
\* every exit path of the function, the path where reading or converting a
\* frame raises included: the function is never left with the handle open.
C13_HandleReleasedOnEveryExit ==
    (Answered /\ IsVideoRequest) => cap = "released"

\* the last four characters of the path spell .mp4, .avi or .mov in any case
HasVideoExtension(path) ==
    LET n == Len(path)
    IN  /\ n >= 4
        /\ path[n - 3] = "."
        /\ \/ path[n - 2] \in {"m", "M"} /\ path[n - 1] \in {"p", "P"} /\ path[n] = "4"
           \/ path[n - 2] \in {"a", "A"} /\ path[n - 1] \in {"v", "V"}
              /\ path[n] \in {"i", "I"}
           \/ path[n - 2] \in {"m", "M"} /\ path[n - 1] \in {"o", "O"}
              /\ path[n] \in {"v", "V"}

\* C14: the media kind is decided by the file name's extension alone, in any
\* case: a path ending in .mp4, .avi or .mov goes through the video sampler
\* whatever the file holds, and every other path (unknown or no extension
\* included) goes through the image loader, which gives exactly one frame
\* when it gives any.
C14_KindFromExtensionOnly ==
    Answered =>
        IF HasVideoExtension(request.path)
        THEN /\ cap = "released"
             /\ Len(frames) = IF request.file.opens THEN request.file.decodable ELSE 0
        ELSE /\ cap = "none"
             /\ Returned => Len(frames) = 1
             /\ Len(frames) <= 1

C14_Witness ==
    /\ Returned
    /\ request.path = <<"a", ".", "m", "O", "v">>
    /\ request.file = VideoFile(2, 2)
    /\ cap = "released"
    /\ Len(frames) = 2

RECURSIVE DaysBefore(_)
DaysBefore(month) ==
    IF month = 1 THEN 0 ELSE DaysBefore(month - 1) + MonthLen(month - 1)

\* the day of the year of a date
Ordinal(date) == DaysBefore(date.month) + date.day

\* C15: for every farm, every days >= 1 and every calendar date,
\* get_historical_analytics returns without error a record whose daily_data
\* has exactly `days` entries on distinct consecutive dates, and whose
\* period_start is exactly `days` days before its period_end.
C15_AnalyticsForEveryDate ==
    Answered =>
        /\ Returned
        /\ Len(result.daily_data) = request.days
        /\ \A i \in 1..(request.days - 1) :
            Ordinal(result.daily_data[i + 1].date)
                = Ordinal(result.daily_data[i].date) + 1
        /\ Ordinal(result.period_end) - Ordinal(result.period_start) = request.days

\* a sampler call on a container that reports as many frames as it decodes
\* and on which no read or conversion fails
SoundVideo ==
    /\ IsVideoRequest
    /\ request.file.opens
    /\ request.file.fault = NoFault
    /\ request.file.total = request.file.decodable

C17_LastFrameNearEnd ==
    (Returned /\ SoundVideo /\ request.file.decodable >= 30) =>
        /\ frames # <<>>
        /\ frames[Len(frames)].idx
               >= request.file.decodable - frame_interval(request.file)

\* the classes that share the highest occurrence count
TiedClasses == {c \in DOMAIN activity_levels : HasHighestCount(c)}

\* C18: when several activity labels share the highest occurrence count the
\* aggregator returns the one of them that appears first in the processed
\* frame sequence (first seen with the highest count wins): classes [1, 0]
\* give the label of class 1.
C18_FirstSeenHighestCountWins ==
    (Returned /\ predictor = "model" /\ preds # <<>>) =>
        LET first == CHOOSE c \in TiedClasses :
                        \A d \in TiedClasses : FirstSeen(c) <= FirstSeen(d)
        IN  analysis.activity_level = activity_levels[first]

\* a three-way tie: classes [3, 1, 0] give the label of class 3
C18_Witness ==
    /\ Returned
    /\ predictor = "model"
    /\ Len(preds) = 3
    /\ preds[1].activity_class = 3
    /\ preds[2].activity_class = 1
    /\ preds[3].activity_class = 0
    /\ Cardinality(TiedClasses) = 3
    /\ analysis.activity_level = "High"

\* C19: is_loaded(), and with it the health endpoint's ai_model_loaded flag,
\* is true exactly in the states where a real model is resident: false before
\* load_model has run and false after load_model failed and installed the
\* mock sentinel, so it is true only when analyses are served by the real
\* model and not by the fallback predictor.
C19_LoadedFlagMeansRealModel ==
    /\ health_check(model).ai_model_loaded <=> model = "loaded"
    /\ (Returned /\ health_check(model).ai_model_loaded) => predictor = "model"

Listed(msg, list) == \E i \in 1..Len(list) : list[i] = msg

\* C20: in every result returned by analyze_fish_activity the insights and
\* recommendations agree with the activity_level, fish_count, feed amount and
\* confidence that the result itself reports (high-density iff the reported
\* fish_count > 35, high-confidence iff the reported confidence_score > 0.9,
\* and so on for each rule), and these four reported fields are the values of
\* the analysis, never the random defaults of the result assembly.
C20_MessagesMatchReportedFields ==
    Returned =>
        /\ Listed(FeedingOptimalMsg, result.insights)
              <=> result.activity_level \in {"High", "Feeding"}
        /\ Listed(ReduceFeedMsg, result.insights) <=> result.activity_level = "Low"
        /\ Listed(HighDensityMsg, result.insights) <=> result.fish_count > 35
        /\ Listed(TargetedMsg, result.insights) <=> result.fish_count < 20
        /\ Listed(GrowthPhaseMsg, result.insights)
              <=> RatLT(Milli(3000), result.recommended_feed_amount)
        /\ Listed(HighConfidenceMsg, result.recommendations)
              <=> RatLT(Milli(900), result.confidence_score)
        /\ Listed(LowConfidenceMsg, result.recommendations)
              <=> RatLT(result.confidence_score, Milli(700))
        /\ Listed(ContinueScheduleMsg, result.recommendations)
              <=> result.activity_level = "Feeding"
        /\ Listed(ReduceFrequencyMsg, result.recommendations)
              <=> result.activity_level = "Low"
        /\ DOMAIN analysis
              = {"activity_level", "fish_count", "feed_amount", "confidence"}
        /\ result.activity_level = analysis.activity_level
        /\ result.fish_count = analysis.fish_count
        /\ result.recommended_feed_amount = analysis.feed_amount
        /\ result.confidence_score = analysis.confidence

\* a fallback result reporting 40 fish with confidence above 0.9
C20_Witness ==
    /\ Returned
    /\ predictor = "fallback"
    /\ result.fish_count = 40
    /\ RatLT(Milli(900), result.confidence_score)
    /\ Listed(HighDensityMsg, result.insights)
    /\ Listed(HighConfidenceMsg, result.recommendations)

\* C21: with the model loaded, the single-image path and the video path on a
\* one-frame sequence agree: for the same frame prediction (class c,
\* confidence p, feed f) both return activity_level = label(c),
\* confidence = p and feed_amount = max(0.5, f).
C21_SingleImageEqualsOneFrameVideo ==
    (Returned /\ model = "loaded" /\ Len(preds) = 1) =>
        LET c == preds[1].activity_class
            p == preds[1].confidence
            f == preds[1].feed_amount
            floored == IF f > 500 THEN f ELSE 500
        IN  /\ analysis.activity_level = activity_levels[c]
            /\ result.activity_level = activity_levels[c]
            /\ RatEQ(analysis.confidence, Milli(p))
            /\ RatEQ(result.confidence, Milli(p))
            /\ RatEQ(analysis.feed_amount, Milli(floored))
            /\ RatEQ(result.feed_amount, Milli(floored))

\* a frame whose feed reading is negative: both paths report 0.5
C21_Witness ==
    /\ Returned
    /\ model = "loaded"
    /\ Len(preds) = 1
    /\ preds[1].feed_amount = -400
    /\ preds[1].activity_class = 3
    /\ analysis.activity_level = "High"
    /\ result.activity_level = "High"
    /\ RatEQ(analysis.feed_amount, Milli(500))
    /\ RatEQ(result.feed_amount, Milli(500))

====
